---- MODULE Spec2Model ----
(***************************************************************************)
(* A model of the claim status engine of NSWAZ-SRP: the srp_requests and   *)
(* srp_process_log tables (shared/schema.ts), the operations of            *)
(* DatabaseStorage on them (server/storage.ts), the status derivation      *)
(* deriveStatusFromLogs, the claim-creation route POST /api/srp-requests,   *)
(* the payout calculator, the payment and dashboard views, the user_roles  *)
(* table with requireRole and the bootstrap route, and the EVE SSO         *)
(* sign-in with isAuthenticated (server/auth.ts).                          *)
(*                                                                         *)
(* A nullable column and an optional argument are modelled as a sequence:  *)
(* <<>> is NULL / undefined, <<v>> is the value v.                         *)
(***************************************************************************)
EXTENDS Integers, Sequences, FiniteSets, TLC

VARIABLES
    srpRequests,    \* table srp_requests: claim id -> row
    srpProcessLog,  \* table srp_process_log: its rows, in insertion order
    now,            \* the database clock read by occurred_at's defaultNow()
    appends,        \* how many rows addProcessLog has inserted (bounds the model)
    pc,             \* per session: the request in flight and its position
    resp,           \* the last result returned to a caller
    dLogs,          \* the argument of a deriveStatusFromLogs call
    dStatus,        \* its result
    classToMaxPayout,   \* SrpLimitsService: ship group -> tier ceiling
    specialClasses,     \* SrpLimitsService: the special-class ship groups
    calcReq,        \* per session: the body posted to /api/killmail/calculate
    calcRes,        \* per session: the response to it
    userRoles,      \* table user_roles: seat user id -> role
    session         \* per session: the data express-session keeps for it

vars == <<srpRequests, srpProcessLog, now, appends, pc, resp, dLogs, dStatus,
          classToMaxPayout, specialClasses, calcReq, calcRes, userRoles, session>>

dbVars == <<srpRequests, srpProcessLog, now, appends, pc, resp>>
deriveVars == <<dLogs, dStatus>>
limitsVars == <<classToMaxPayout, specialClasses>>
calcVars == <<classToMaxPayout, specialClasses, calcReq, calcRes>>
authVars == <<userRoles, session>>

----------------------------------------------------------------------------
(* Bounds of the model. *)

MaxDeriveLen == 3   \* longest entry list handed to deriveStatusFromLogs
MaxClaims == 1      \* rows of srp_requests
MaxAppends == 2     \* rows of srp_process_log inserted by addProcessLog
MaxTime == 3        \* distinct clock readings
MaxPosted == 2      \* rows of srp_requests made by POST /api/srp-requests

----------------------------------------------------------------------------
(* Values. *)

Null == <<>>
Undefined == <<>>
Some(v) == <<v>>

\* srpProcessTypeEnum: the values the process_type column accepts.
srpProcessTypeEnum == {"created", "approve", "deny", "pay"}

\* Kinds a caller may pass: processType is typed `string` and cast `as any`.
\* "updated" is the audit kind the comment of STATUS_PROCESS_TYPES names.
ProcessTypeInputs == srpProcessTypeEnum \cup {"updated"}

----------------------------------------------------------------------------
(* deriveStatusFromLogs *)

STATUS_PROCESS_TYPES == {"created", "approve", "deny", "pay"}

\* PROCESS_TO_STATUS[k]: a missing key reads as undefined.
PROCESS_TO_STATUS(k) ==
    CASE k = "created" -> Some("pending")
      [] k = "approve" -> Some("approved")
      [] k = "deny"    -> Some("denied")
      [] k = "pay"     -> Some("paid")
      [] OTHER         -> Undefined

\* x || d on an optional string.
OrElse(x, d) == IF x = Undefined \/ x = Some("") THEN d ELSE x[1]

\* A plausible slip: the loop answers at the entry it stands on, without the
\* test of its kind.
DeriveScan_NoSkip(logs, i) ==
    IF i > Len(logs) THEN "pending"
    ELSE OrElse(PROCESS_TO_STATUS(logs[i].processType), "pending")

RECURSIVE DeriveScan(_, _)
DeriveScan(logs, i) ==
    IF i > Len(logs) THEN "pending"
    ELSE IF logs[i].processType \in STATUS_PROCESS_TYPES
         THEN OrElse(PROCESS_TO_STATUS(logs[i].processType), "pending")
         ELSE DeriveScan(logs, i + 1)

\* A plausible slip: the kind filter dropped, so the first entry decides.
DeriveStatusFromLogs_NoFilter(logs) ==
    IF Len(logs) = 0 THEN "pending"
    ELSE OrElse(PROCESS_TO_STATUS(logs[1].processType), "pending")

DeriveStatusFromLogs(logs) ==
    IF Len(logs) = 0 THEN "pending" ELSE DeriveScan(logs, 1)

----------------------------------------------------------------------------
(* The pure function on its own: every entry list over the kinds, up to    *)
(* MaxDeriveLen entries, is an initial state; ApplyDerive calls it.        *)

SeqsUpTo(S, n) == UNION {[1..k -> S] : k \in 0..n}

DeriveInputs ==
    SeqsUpTo([processType : ProcessTypeInputs], MaxDeriveLen)

\* SrpLimitsService as constructed (its maps empty), and no calculation asked.
NoBody == [op |-> "none"]
NoRes == [code |-> "none"]

NoCalculation ==
    /\ classToMaxPayout = [g \in {} |-> 0]
    /\ specialClasses = {}
    /\ calcReq = [s \in {1, 2} |-> NoBody]
    /\ calcRes = [s \in {1, 2} |-> NoRes]

\* A session after a completed sign-in of seat user s: the token is fresh and
\* no sign-in is under way. No row of user_roles exists yet.
SignedIn(s) ==
    [user |-> <<s>>, accessToken |-> <<0>>, refreshToken |-> <<0>>,
     tokenExpiry |-> <<MaxTime + 1>>, oauthState |-> <<>>]

NoRoles == [u \in {} |-> "member"]

AllSignedIn ==
    /\ userRoles = NoRoles
    /\ session = [s \in {1, 2} |-> SignedIn(s)]

NoSession == [op |-> "idle"]
NoResp == [op |-> "none"]

EmptyDb ==
    /\ srpRequests = <<>>
    /\ srpProcessLog = <<>>
    /\ now = 1
    /\ appends = 0
    /\ pc = [s \in {1, 2} |-> NoSession]
    /\ resp = NoResp

InitDerive ==
    /\ EmptyDb
    /\ dLogs \in DeriveInputs
    /\ dStatus = "unset"
    /\ NoCalculation
    /\ AllSignedIn

ApplyDerive ==
    /\ dStatus = "unset"
    /\ dStatus' = DeriveStatusFromLogs(dLogs)
    /\ UNCHANGED <<dLogs, dbVars, calcVars, authVars>>

NextDerive == ApplyDerive

SpecDerive == InitDerive /\ [][NextDerive]_vars

----------------------------------------------------------------------------
(* The tables and the sessions. *)

Sessions == {1, 2}

\* session.user.seatUserId and session.user.mainCharacterName of a session.
SeatUserId(s) == s
MainCharName(s) == IF s = 1 THEN "pilot1" ELSE "pilot2"

ClaimIds == 1..MaxClaims
\* Kill-record ids handed to createSrpRequest: one per claim.
KillmailIds == {100 + i : i \in 1..MaxClaims}

\* note?: string and payout?: number as callers may pass them.
NoteInputs == {Undefined, Some(""), Some("n")}
PayoutInputs == {Undefined, Some(0), Some(5)}

Idle(s) == pc[s] = NoSession

\* A result: of a storage call (code "ok", "threw" or "undefined") or of a
\* route (code: the HTTP status). body carries the derived status of a read.
Resp(op, id, code, body) ==
    [op |-> op, id |-> id, code |-> code, body |-> body]

\* The rows of srp_process_log of one claim, in insertion order.
LogsOf(log, id) == SelectSeq(log, LAMBDA e : e.srpRequestId = id)

\* A new row of srp_process_log: occurred_at defaults to now().
LogRow(id, processType, byMainChar, note) ==
    [srpRequestId |-> id, processType |-> processType, occurredAt |-> now,
     byMainChar |-> byMainChar, note |-> note]

\* gen_random_uuid(): a fresh id; ids are interchangeable, the least free one
\* stands for any.
FreshId == Cardinality(DOMAIN srpRequests) + 1

\* uniqueIndex idx_srp_requests_killmail_id_unique
KillmailTaken(k) == \E id \in DOMAIN srpRequests : srpRequests[id].killmailId = k

\* The database clock advances between statements.
Tick ==
    /\ now < MaxTime
    /\ now' = now + 1
    /\ UNCHANGED <<srpRequests, srpProcessLog, appends, pc, resp, deriveVars, calcVars, authVars>>

----------------------------------------------------------------------------
(* DatabaseStorage.createSrpRequest: two INSERT statements, each its own   *)
(* transaction, with an await between them.                                *)

\* First statement: insert into srp_requests. payoutAmount is omitted from
\* the insert schema, so the column starts NULL. A taken killmailId violates
\* the unique index and the call throws.
CreateSrpRequest_InsertRequest(s, killmailId, op) ==
    IF KillmailTaken(killmailId)
    THEN /\ pc' = [pc EXCEPT ![s] = NoSession]
         /\ resp' = Resp(op, 0, IF op = "postSrpRequest" THEN "500" ELSE "threw", "")
         /\ UNCHANGED <<srpRequests, srpProcessLog, now>>
    ELSE /\ srpRequests' = (FreshId :> [seatUserId |-> SeatUserId(s),
                                        killmailId |-> killmailId,
                                        payoutAmount |-> Null]) @@ srpRequests
         /\ pc' = [pc EXCEPT ![s] = [op |-> op, step |-> "insertLog", id |-> FreshId]]
         /\ UNCHANGED <<srpProcessLog, now, resp>>

\* createSrpRequest called on the storage object.
CreateSrpRequest(s, killmailId) ==
    /\ Idle(s)
    /\ Cardinality(DOMAIN srpRequests) < MaxClaims
    /\ CreateSrpRequest_InsertRequest(s, killmailId, "createSrpRequest")
    /\ UNCHANGED <<appends, deriveVars, calcVars, authVars>>

\* Second statement: insert the 'created' entry.
CreateSrpRequest_InsertLog(s) ==
    /\ pc[s].op \in {"createSrpRequest", "postSrpRequest"}
    /\ pc[s].step = "insertLog"
    /\ srpProcessLog' =
          Append(srpProcessLog, LogRow(pc[s].id, "created", MainCharName(s), Null))
    /\ pc' = [pc EXCEPT ![s] = NoSession]
    /\ resp' = Resp(pc[s].op, pc[s].id,
                    IF pc[s].op = "postSrpRequest" THEN "201" ELSE "ok", "")
    /\ UNCHANGED <<srpRequests, now, appends, deriveVars, calcVars, authVars>>

\* The second statement fails (the connection drops, the process stops):
\* the call throws and nothing undoes the first insert.
CreateSrpRequest_LogFails(s) ==
    /\ pc[s].op \in {"createSrpRequest", "postSrpRequest"}
    /\ pc[s].step = "insertLog"
    /\ pc' = [pc EXCEPT ![s] = NoSession]
    /\ resp' = Resp(pc[s].op, pc[s].id,
                    IF pc[s].op = "postSrpRequest" THEN "500" ELSE "threw", "")
    /\ UNCHANGED <<srpRequests, srpProcessLog, now, appends, deriveVars, calcVars, authVars>>

----------------------------------------------------------------------------
(* DatabaseStorage.addProcessLog: an UPDATE of payout_amount when payout   *)
(* is given, then the INSERT of the entry; no transaction joins them.      *)

\* note || null
NoteOrNull(note) == IF note = Undefined \/ note = Some("") THEN Null ELSE note

\* UPDATE srp_requests SET payout_amount = payout WHERE id = srpRequestId
\* (no row matches an unknown id).
SetPayoutAmount(requests, id, payout) ==
    IF id \in DOMAIN requests
    THEN [requests EXCEPT ![id].payoutAmount = Some(payout)]
    ELSE requests

\* The INSERT is refused by the foreign key on srp_request_id and by the
\* enum of process_type.
InsertLogAccepted(id, processType) ==
    /\ id \in DOMAIN srpRequests
    /\ processType \in srpProcessTypeEnum

\* A plausible slip: the entry replaces the claim's latest one instead of
\* being appended.
InsertProcessLog_Overwrite(log, row) ==
    IF \E i \in 1..Len(log) : log[i].srpRequestId = row.srpRequestId
    THEN LET last == CHOOSE i \in 1..Len(log) :
                        /\ log[i].srpRequestId = row.srpRequestId
                        /\ \A j \in i+1..Len(log) : log[j].srpRequestId # row.srpRequestId
         IN  [log EXCEPT ![last] = row]
    ELSE Append(log, row)

\* db.insert(srpProcessLog).values(row)
InsertProcessLog(log, row) == Append(log, row)

AddProcessLog_Insert(s, id, processType, note) ==
    IF InsertLogAccepted(id, processType)
    THEN /\ srpProcessLog' = InsertProcessLog(srpProcessLog,
                                LogRow(id, processType, MainCharName(s), NoteOrNull(note)))
         /\ appends' = appends + 1
         /\ resp' = Resp("addProcessLog", id, "ok", "")
    ELSE /\ srpProcessLog' = srpProcessLog
         /\ appends' = appends
         /\ resp' = Resp("addProcessLog", id, "threw", "")

\* payoutAmount of a claim as a caller reads it (NULL for an unknown id).
PayoutOf(requests, id) ==
    IF id \in DOMAIN requests THEN requests[id].payoutAmount ELSE Null

\* The call, up to its first await. With payout given the UPDATE runs and
\* the INSERT is still to come; without it the INSERT is the first statement.
\* payoutBefore remembers the value the UPDATE replaced; the code keeps it
\* nowhere, it is there to state what a failed call leaves behind.
AddProcessLog_Call(s, id, processType, note, payout) ==
    IF payout # Undefined
    THEN /\ srpRequests' = SetPayoutAmount(srpRequests, id, payout[1])
         /\ pc' = [pc EXCEPT ![s] =
                     [op |-> "addProcessLog", step |-> "insertLog", id |-> id,
                      processType |-> processType, note |-> note,
                      payoutBefore |-> PayoutOf(srpRequests, id)]]
         /\ UNCHANGED <<srpProcessLog, appends, resp>>
    ELSE /\ AddProcessLog_Insert(s, id, processType, note)
         /\ pc' = [pc EXCEPT ![s] = NoSession]
         /\ UNCHANGED srpRequests

\* addProcessLog called on the storage object.
AddProcessLog(s, id, processType, note, payout) ==
    /\ Idle(s)
    /\ appends + Cardinality({x \in Sessions : pc[x].op = "addProcessLog"}) < MaxAppends
    /\ AddProcessLog_Call(s, id, processType, note, payout)
    /\ UNCHANGED <<now, deriveVars, calcVars, authVars>>

\* The INSERT after the UPDATE.
AddProcessLog_InsertLog(s) ==
    /\ pc[s].op = "addProcessLog"
    /\ pc[s].step = "insertLog"
    /\ AddProcessLog_Insert(s, pc[s].id, pc[s].processType, pc[s].note)
    /\ pc' = [pc EXCEPT ![s] = NoSession]
    /\ UNCHANGED <<srpRequests, now, deriveVars, calcVars, authVars>>

\* The INSERT fails for a reason of the infrastructure (or the process stops
\* before it): the call throws and the UPDATE stays.
AddProcessLog_InsertFails(s) ==
    /\ pc[s].op = "addProcessLog"
    /\ pc[s].step = "insertLog"
    /\ pc' = [pc EXCEPT ![s] = NoSession]
    /\ resp' = Resp("addProcessLog", pc[s].id, "threw", "")
    /\ UNCHANGED <<srpRequests, srpProcessLog, now, appends, deriveVars, calcVars, authVars>>

----------------------------------------------------------------------------
(* Reading: getSrpProcessLogs and getSrpRequest.                           *)

\* ORDER BY occurred_at DESC: any arrangement of the claim's rows in which
\* the timestamps do not increase. Rows with equal timestamps come in an
\* order the database chooses.
RECURSIVE Perms(_)
Perms(S) ==
    IF S = {} THEN {<<>>}
    ELSE UNION {{<<x>> \o p : p \in Perms(S \ {x})} : x \in S}

GetSrpProcessLogs(log, id) ==
    LET mine == LogsOf(log, id)
        orders == Perms(1..Len(mine))
    IN  {[i \in 1..Len(mine) |-> mine[o[i]]] : o \in
            {o \in orders : \A i \in 1..Len(mine)-1 :
                mine[o[i]].occurredAt >= mine[o[i+1]].occurredAt}}

\* getSrpRequest(id): undefined for an unknown id, else the claim with the
\* status derived from its entries as fetched.
GetSrpRequest(s, id) ==
    /\ Idle(s)
    /\ IF id \notin DOMAIN srpRequests
       THEN resp' = Resp("getSrpRequest", id, "undefined", "")
       ELSE \E processLogs \in GetSrpProcessLogs(srpProcessLog, id) :
               resp' = Resp("getSrpRequest", id, "ok", DeriveStatusFromLogs(processLogs))
    /\ UNCHANGED <<srpRequests, srpProcessLog, now, appends, pc, deriveVars, calcVars, authVars>>

----------------------------------------------------------------------------
(* The storage object under two sessions calling it.                       *)

Init ==
    /\ EmptyDb
    /\ dLogs = <<>>
    /\ dStatus = "unset"
    /\ NoCalculation
    /\ AllSignedIn

Next ==
    \/ Tick
    \/ \E s \in Sessions, k \in KillmailIds : CreateSrpRequest(s, k)
    \/ \E s \in Sessions : CreateSrpRequest_InsertLog(s)
    \/ \E s \in Sessions : CreateSrpRequest_LogFails(s)
    \/ \E s \in Sessions, id \in ClaimIds, t \in ProcessTypeInputs,
          n \in NoteInputs, p \in PayoutInputs : AddProcessLog(s, id, t, n, p)
    \/ \E s \in Sessions : AddProcessLog_InsertLog(s)
    \/ \E s \in Sessions : AddProcessLog_InsertFails(s)
    \/ \E s \in Sessions, id \in ClaimIds : GetSrpRequest(s, id)

Spec == Init /\ [][Next]_vars

----------------------------------------------------------------------------
(* Two reviewers at once: one pending claim, and in each session one       *)
(* review decision already submitted (an addProcessLog call of kind        *)
(* approve or deny on that claim), their statements interleaving freely.   *)

ReviewCalls ==
    [op : {"addProcessLog"}, step : {"call"}, id : {1},
     processType : {"approve", "deny"}, note : NoteInputs, payout : PayoutInputs]

InitRace ==
    /\ srpRequests = (1 :> [seatUserId |-> 1, killmailId |-> 101, payoutAmount |-> Null])
    /\ srpProcessLog = <<[srpRequestId |-> 1, processType |-> "created", occurredAt |-> 1,
                          byMainChar |-> "pilot1", note |-> Null]>>
    /\ now = 1
    /\ appends = 0
    /\ pc \in [Sessions -> ReviewCalls]
    /\ resp = NoResp
    /\ dLogs = <<>>
    /\ dStatus = "unset"
    /\ NoCalculation
    /\ AllSignedIn

\* The submitted call starts.
Review_Call(s) ==
    /\ pc[s].op = "addProcessLog"
    /\ pc[s].step = "call"
    /\ AddProcessLog_Call(s, pc[s].id, pc[s].processType, pc[s].note, pc[s].payout)
    /\ UNCHANGED <<now, deriveVars, calcVars, authVars>>

NextRace ==
    \/ Tick
    \/ \E s \in Sessions : Review_Call(s)
    \/ \E s \in Sessions : AddProcessLog_InsertLog(s)
    \/ \E s \in Sessions : AddProcessLog_InsertFails(s)

SpecRace == InitRace /\ [][NextRace]_vars

----------------------------------------------------------------------------
(* POST /api/srp-requests, with the storage object's createSrpRequest.     *)

\* session.user of the two sessions: session 1 holds its characters from
\* SeAT, session 2 logged in while SeAT gave none (the fallback branch).
MainCharacterId(s) == 10 + s
AssociatedCharacterIds(s) == IF s = 1 THEN {11, 13} ELSE {}

\* The fleets table; no operation modelled here writes it.
Fleets == {"F1"}

\* Request bodies. A missing killmailId fails insertSrpRequestSchema.parse;
\* killmailId 0 and a missing victimCharacterId are falsy.
Bodies ==
    [killmailId : {Undefined, Some(0), Some(101)},
     victimCharacterId : {Undefined, Some(11), Some(12), Some(99)},
     operationType : {"solo", "fleet"},
     fleetId : {Undefined, Some("F1"), Some("FX")}]

\* !x for an optional number, and for an optional string.
FalsyNumber(x) == x = Undefined \/ x = Some(0)

FalsyString(x) == x = Undefined \/ x = Some("")

OwnsVictim(s, victim) ==
    IF AssociatedCharacterIds(s) # {}
    THEN victim \in AssociatedCharacterIds(s)
    ELSE victim = MainCharacterId(s)

Reply(s, code, body) ==
    /\ pc' = [pc EXCEPT ![s] = NoSession]
    /\ resp' = Resp("postSrpRequest", 0, code, body)

\* Requests past validation that have not yet inserted their row.
Creating == {s \in Sessions : pc[s].op = "postSrpRequest"
                               /\ pc[s].step \in {"getFleet", "insertRequest"}}

\* After the duplicate check: the fleet branch, then createSrpRequest.
PostSrpRequest_Proceed(s, body) ==
    IF body.operationType = "fleet" /\ FalsyString(body.fleetId)
    THEN Reply(s, "400", "fleet uuid required")
    ELSE /\ Cardinality(DOMAIN srpRequests) + Cardinality(Creating) < MaxPosted
         /\ pc' = [pc EXCEPT ![s] =
                     [op |-> "postSrpRequest",
                      step |-> IF body.operationType = "fleet"
                               THEN "getFleet" ELSE "insertRequest",
                      killmailId |-> body.killmailId[1],
                      victimCharacterId |-> body.victimCharacterId[1],
                      fleetId |-> body.fleetId]]
         /\ UNCHANGED resp

\* The handler up to its first await: parse, ownership, and (for a truthy
\* killmailId) the SELECT of getSrpRequestByKillmailId.
PostSrpRequest(s, body) ==
    /\ Idle(s)
    /\ IF body.killmailId = Undefined
       THEN Reply(s, "400", "zod")
       ELSE IF FalsyNumber(body.victimCharacterId)
       THEN Reply(s, "400", "no victim")
       ELSE IF ~OwnsVictim(s, body.victimCharacterId[1])
       THEN Reply(s, "403", "not owner")
       ELSE IF ~FalsyNumber(body.killmailId) /\ KillmailTaken(body.killmailId[1])
       THEN Reply(s, "400", "duplicate killmail")
       ELSE PostSrpRequest_Proceed(s, body)
    /\ UNCHANGED <<srpRequests, srpProcessLog, now, appends, deriveVars, calcVars, authVars>>

\* await storage.getFleet(validated.fleetId)
PostSrpRequest_GetFleet(s) ==
    /\ pc[s].op = "postSrpRequest"
    /\ pc[s].step = "getFleet"
    /\ IF pc[s].fleetId[1] \in Fleets
       THEN /\ pc' = [pc EXCEPT ![s].step = "insertRequest"]
            /\ UNCHANGED resp
       ELSE Reply(s, "400", "invalid fleet uuid")
    /\ UNCHANGED <<srpRequests, srpProcessLog, now, appends, deriveVars, calcVars, authVars>>

\* await storage.createSrpRequest(...): its first INSERT. A unique-index
\* violation is caught by the handler's catch-all and answered 500.
PostSrpRequest_Create(s) ==
    /\ pc[s].op = "postSrpRequest"
    /\ pc[s].step = "insertRequest"
    /\ CreateSrpRequest_InsertRequest(s, pc[s].killmailId, "postSrpRequest")
    /\ UNCHANGED <<appends, deriveVars, calcVars, authVars>>

NextCreate ==
    \/ Tick
    \/ \E s \in Sessions, body \in Bodies : PostSrpRequest(s, body)
    \/ \E s \in Sessions : PostSrpRequest_GetFleet(s)
    \/ \E s \in Sessions : PostSrpRequest_Create(s)
    \/ \E s \in Sessions : CreateSrpRequest_InsertLog(s)
    \/ \E s \in Sessions : CreateSrpRequest_LogFails(s)

SpecCreate == Init /\ [][NextCreate]_vars

----------------------------------------------------------------------------
(* POST /api/srp-requests as server/routes.ts has it: the ownership check  *)
(* is made only when the session holds associated character ids, and there *)
(* is no duplicate check before createSrpRequest.                          *)

\* associatedCharacterIds.length > 0 && !includes(victimCharacterId)
RefusesVictim(s, victim) ==
    AssociatedCharacterIds(s) # {} /\ victim \notin AssociatedCharacterIds(s)

\* The handler up to its first await.
PostSrpRequest_Routes(s, body) ==
    /\ Idle(s)
    /\ IF body.killmailId = Undefined
       THEN Reply(s, "400", "zod")
       ELSE IF FalsyNumber(body.victimCharacterId)
       THEN Reply(s, "400", "no victim")
       ELSE IF RefusesVictim(s, body.victimCharacterId[1])
       THEN Reply(s, "403", "not owner")
       ELSE PostSrpRequest_Proceed(s, body)
    /\ UNCHANGED <<srpRequests, srpProcessLog, now, appends, deriveVars, calcVars, authVars>>

NextRoutes ==
    \/ Tick
    \/ \E s \in Sessions, body \in Bodies : PostSrpRequest_Routes(s, body)
    \/ \E s \in Sessions : PostSrpRequest_GetFleet(s)
    \/ \E s \in Sessions : PostSrpRequest_Create(s)
    \/ \E s \in Sessions : CreateSrpRequest_InsertLog(s)
    \/ \E s \in Sessions : CreateSrpRequest_LogFails(s)

SpecRoutes == Init /\ [][NextRoutes]_vars

----------------------------------------------------------------------------
(* POST /api/killmail/calculate, with the lookups of SrpLimitsService.     *)
(*                                                                         *)
(* Amounts are counted in units of 12,500,000 ISK, and base values are     *)
(* multiples of four units, so that the products by 0.25 and 0.5 are whole *)
(* numbers (the program's floating point computes them exactly).           *)

\* SRP_POLICY. A multiplier is <<numerator, denominator>>.
FLEET_MULTIPLIER == <<1, 2>>
SOLO_MULTIPLIER == <<1, 4>>
SPECIAL_ROLE_MULTIPLIER == <<1, 1>>
\* 5,000,000,000 ISK
DEFAULT_MAX_PAYOUT == 400

\* iskValue: -50M, 50M, 1B, 2B and 10B ISK.
IskValues == {-4, 4, 80, 160, 800}

\* Bodies posted. srpCalculateSchema wants shipTypeId and iskValue numbers,
\* operationType solo or fleet, isSpecialRole a boolean defaulting to false,
\* groupName an optional string.
CalcBodies ==
    [shipTypeId : {Undefined, Some(587)},
     iskValue : {Undefined} \cup {Some(v) : v \in IskValues},
     operationType : {"solo", "fleet", "mining"},
     isSpecialRole : {Undefined, Some(TRUE), Some(FALSE)},
     groupName : {Undefined, Some(""), Some("Frigate"), Some("Logistics"), Some("Titan")}]

\* What initialize() leaves in the service: nothing when srpLimits.json is
\* not found, else the tiers' classes with their ceilings (300M and 2B ISK)
\* and the special classes.
LimitsLoaded ==
    {[classToMaxPayout |-> [g \in {} |-> 0], specialClasses |-> {}],
     [classToMaxPayout |-> [g \in {"Frigate", "Logistics"} |->
                               IF g = "Frigate" THEN 24 ELSE 160],
      specialClasses |-> {"Logistics"}]}

\* srpCalculateSchema.parse succeeds
SrpCalculateSchema(body) ==
    /\ body.shipTypeId # Undefined
    /\ body.iskValue # Undefined
    /\ body.operationType \in {"solo", "fleet"}

\* SrpLimitsService.isSpecialClass
IsSpecialClass(groupName) == groupName \in specialClasses

\* SrpLimitsService.getSoloMaxPayout
GetSoloMaxPayout(groupName) ==
    IF groupName \in DOMAIN classToMaxPayout
    THEN Some(classToMaxPayout[groupName])
    ELSE Null

\* operationType === "fleet" && isSpecialRole
EffectiveSpecialRole_FlagOnly(operationType, isSpecialRole) == isSpecialRole

EffectiveSpecialRole(operationType, isSpecialRole) ==
    operationType = "fleet" /\ isSpecialRole

\* A plausible slip: the two plain rates exchanged.
OperationMultiplier_Swapped(operationType, effectiveSpecialRole, isSpecialShipClass) ==
    IF effectiveSpecialRole THEN SPECIAL_ROLE_MULTIPLIER
    ELSE IF operationType = "fleet" THEN SOLO_MULTIPLIER
    ELSE IF isSpecialShipClass THEN SPECIAL_ROLE_MULTIPLIER
    ELSE FLEET_MULTIPLIER

\* A plausible slip: every fleet loss taken at the special-role rate.
OperationMultiplier_FleetFull(operationType, effectiveSpecialRole, isSpecialShipClass) ==
    IF operationType = "fleet" THEN SPECIAL_ROLE_MULTIPLIER
    ELSE IF isSpecialShipClass THEN SPECIAL_ROLE_MULTIPLIER
    ELSE SOLO_MULTIPLIER

\* A plausible slip: the special ship class is not looked at.
OperationMultiplier_NoShipClass(operationType, effectiveSpecialRole, isSpecialShipClass) ==
    IF effectiveSpecialRole THEN SPECIAL_ROLE_MULTIPLIER
    ELSE IF operationType = "fleet" THEN FLEET_MULTIPLIER
    ELSE SOLO_MULTIPLIER

OperationMultiplier(operationType, effectiveSpecialRole, isSpecialShipClass) ==
    IF effectiveSpecialRole THEN SPECIAL_ROLE_MULTIPLIER
    ELSE IF operationType = "fleet" THEN FLEET_MULTIPLIER
    ELSE IF isSpecialShipClass THEN SPECIAL_ROLE_MULTIPLIER
    ELSE SOLO_MULTIPLIER

\* baseValue * operationMultiplier
Times(baseValue, multiplier) == (baseValue * multiplier[1]) \div multiplier[2]

\* A plausible slip: the tier ceiling applied to fleet losses too.
MaxPayout_AnyOperation(operationType, groupName) ==
    IF ~FalsyString(groupName)
    THEN LET soloLimit == GetSoloMaxPayout(groupName[1])
         IN  IF soloLimit = Null THEN DEFAULT_MAX_PAYOUT ELSE soloLimit[1]
    ELSE DEFAULT_MAX_PAYOUT

MaxPayout(operationType, groupName) ==
    IF operationType = "solo" /\ ~FalsyString(groupName)
    THEN LET soloLimit == GetSoloMaxPayout(groupName[1])
         IN  IF soloLimit = Null THEN DEFAULT_MAX_PAYOUT ELSE soloLimit[1]
    ELSE DEFAULT_MAX_PAYOUT

\* A plausible slip: the limit is not applied.
Min_Uncapped(a, b) == a

Min(a, b) == IF a <= b THEN a ELSE b

\* The handler's answer to a body.
CalculateResponse(body) ==
    IF ~SrpCalculateSchema(body)
    THEN [code |-> "400"]
    ELSE LET operationType == body.operationType
             isSpecialRole == IF body.isSpecialRole = Undefined
                              THEN FALSE ELSE body.isSpecialRole[1]
             groupName == body.groupName
             baseValue == body.iskValue[1]
             isSpecialShipClass == IF ~FalsyString(groupName)
                                   THEN IsSpecialClass(groupName[1]) ELSE FALSE
             effectiveSpecialRole == EffectiveSpecialRole(operationType, isSpecialRole)
             operationMultiplier ==
                 OperationMultiplier(operationType, effectiveSpecialRole, isSpecialShipClass)
             calculatedAmount == Times(baseValue, operationMultiplier)
             maxPayout == MaxPayout(operationType, groupName)
             finalAmount == Min(calculatedAmount, maxPayout)
         IN  [code |-> "200",
              estimatedPayout |-> finalAmount,
              breakdown |-> [baseValue |-> baseValue,
                             operationMultiplier |-> operationMultiplier,
                             isSpecialRole |-> effectiveSpecialRole,
                             finalAmount |-> finalAmount,
                             maxPayout |-> maxPayout,
                             isSpecialShipClass |-> isSpecialShipClass]]

InitCalc ==
    /\ EmptyDb
    /\ dLogs = <<>>
    /\ dStatus = "unset"
    /\ \E limits \in LimitsLoaded :
          /\ classToMaxPayout = limits.classToMaxPayout
          /\ specialClasses = limits.specialClasses
    /\ calcReq \in [Sessions -> CalcBodies]
    /\ calcRes = [s \in Sessions |-> NoRes]
    /\ AllSignedIn

\* A plausible slip: the handler registers the group it was asked about.
Calculate_Registering(s) ==
    /\ calcRes[s] = NoRes
    /\ calcRes' = [calcRes EXCEPT ![s] = CalculateResponse(calcReq[s])]
    /\ specialClasses' = IF FalsyString(calcReq[s].groupName)
                         THEN specialClasses
                         ELSE specialClasses \cup {calcReq[s].groupName[1]}
    /\ UNCHANGED <<dbVars, deriveVars, classToMaxPayout, calcReq, authVars>>

\* app.post("/api/killmail/calculate")
Calculate(s) ==
    /\ calcRes[s] = NoRes
    /\ calcRes' = [calcRes EXCEPT ![s] = CalculateResponse(calcReq[s])]
    /\ UNCHANGED <<dbVars, deriveVars, limitsVars, calcReq, authVars>>

NextCalc == \E s \in Sessions : Calculate(s)

SpecCalc == InitCalc /\ [][NextCalc]_vars

----------------------------------------------------------------------------
(* The payment view: storage.getApprovedRequestsGroupedBySeatUserId, over  *)
(* claims made by createSrpRequest and decided by addProcessLog, each on a *)
(* kill record of its own, with every statement succeeding and the calls   *)
(* served one after another.                                               *)

PostedIds == 1..MaxPosted

\* createSrpRequest, for up to MaxPosted claims.
CreateSrpRequest_Posted(s, killmailId) ==
    /\ Idle(s)
    /\ Cardinality(DOMAIN srpRequests) < MaxPosted
    /\ CreateSrpRequest_InsertRequest(s, killmailId, "createSrpRequest")
    /\ UNCHANGED <<appends, deriveVars, calcVars, authVars>>

\* const allRequests = await db.select().from(srpRequests)
GetApproved_SelectRequests(s) ==
    /\ Idle(s)
    /\ pc' = [pc EXCEPT ![s] = [op |-> "getApprovedRequestsGroupedBySeatUserId",
                                step |-> "selectLogs",
                                allRequests |-> srpRequests]]
    /\ UNCHANGED <<srpRequests, srpProcessLog, now, appends, resp, deriveVars, calcVars, authVars>>

RECURSIVE TotalPayout(_, _)
\* existing.totalPayout += request.payoutAmount, over the requests kept
TotalPayout(requests, ids) ==
    IF ids = {} THEN 0
    ELSE LET id == CHOOSE x \in ids : TRUE
         IN  requests[id].payoutAmount[1] + TotalPayout(requests, ids \ {id})

\* status === "approved" && request.payoutAmount
KeepsRequest(request, status) ==
    status = "approved" /\ ~FalsyNumber(request.payoutAmount)

\* The userPayouts map as an array, given the status derived for each request.
GroupBySeatUserId(allRequests, statusOf) ==
    LET kept == {id \in DOMAIN allRequests : KeepsRequest(allRequests[id], statusOf[id])}
        of(u) == {id \in kept : allRequests[id].seatUserId = u}
    IN  {[seatUserId |-> u,
          totalPayout |-> TotalPayout(allRequests, of(u)),
          requestCount |-> Cardinality(of(u)),
          requestIds |-> of(u)] : u \in {allRequests[id].seatUserId : id \in kept}}

\* const allLogs = await db.select()...orderBy(desc(occurredAt)), and the
\* rest of the function. Rows of equal occurred_at come in any order.
GetApproved_SelectLogs(s) ==
    /\ pc[s].op = "getApprovedRequestsGroupedBySeatUserId"
    /\ pc[s].step = "selectLogs"
    /\ \E statusOf \in [DOMAIN pc[s].allRequests -> {"pending", "approved", "denied", "paid"}] :
          /\ \A id \in DOMAIN pc[s].allRequests :
                \E logs \in GetSrpProcessLogs(srpProcessLog, id) :
                    statusOf[id] = DeriveStatusFromLogs(logs)
          /\ resp' = Resp("getApprovedRequestsGroupedBySeatUserId", 0, "ok",
                          GroupBySeatUserId(pc[s].allRequests, statusOf))
    /\ pc' = [pc EXCEPT ![s] = NoSession]
    /\ UNCHANGED <<srpRequests, srpProcessLog, now, appends, deriveVars, calcVars, authVars>>

\* The calls are served one after another.
OneAtATime == \A s \in Sessions : Idle(s)

NextPayouts ==
    \/ Tick
    \/ \E s \in Sessions : OneAtATime /\ CreateSrpRequest_Posted(s, 100 + FreshId)
    \/ \E s \in Sessions : CreateSrpRequest_InsertLog(s)
    \/ \E s \in Sessions, id \in PostedIds, t \in {"approve", "deny", "pay"},
          p \in {Undefined, Some(5)} :
             OneAtATime /\ AddProcessLog(s, id, t, Undefined, p)
    \/ \E s \in Sessions : AddProcessLog_InsertLog(s)
    \/ \E s \in Sessions : OneAtATime /\ GetApproved_SelectRequests(s)
    \/ \E s \in Sessions : GetApproved_SelectLogs(s)

SpecPayouts == Init /\ [][NextPayouts]_vars

----------------------------------------------------------------------------
(* The user_roles table (shared/schema.ts) and the routes that write it:   *)
(* GET /api/user/role and POST /api/admin/bootstrap (server/routes.ts).     *)
(* Each storage call is one statement; a route awaits between them.        *)

userRoleEnum == {"member", "fc", "admin"}

\* getUserRole: the row of a user, or undefined.
GetUserRole(roles, userId) ==
    IF userId \in DOMAIN roles THEN Some(roles[userId]) ELSE Undefined

\* createUserRole: INSERT; seat_user_id is unique, so a second row throws.
CreateUserRole(s, op, userId, role) ==
    IF userId \in DOMAIN userRoles
    THEN /\ resp' = Resp(op, userId, "500", "")
         /\ UNCHANGED userRoles
    ELSE /\ userRoles' = [u \in DOMAIN userRoles \cup {userId} |->
                             IF u = userId THEN role ELSE userRoles[u]]
         /\ resp' = Resp(op, userId, "200", role)

\* updateUserRole: UPDATE ... WHERE seat_user_id = userId RETURNING
UpdateUserRole(s, op, userId, role) ==
    IF userId \in DOMAIN userRoles
    THEN /\ userRoles' = [userRoles EXCEPT ![userId] = role]
         /\ resp' = Resp(op, userId, "200", role)
    ELSE /\ resp' = Resp(op, userId, "200", "")
         /\ UNCHANGED userRoles

\* app.get("/api/user/role"): let userRole = await storage.getUserRole(userId)
UserRole_GetRole(s) ==
    /\ Idle(s)
    /\ session[s].user # Undefined
    /\ LET userRole == GetUserRole(userRoles, SeatUserId(s))
       IN  IF userRole = Undefined
           THEN /\ pc' = [pc EXCEPT ![s] = [op |-> "userRole", step |-> "create"]]
                /\ UNCHANGED resp
           ELSE /\ resp' = Resp("userRole", SeatUserId(s), "200", userRole[1])
                /\ UNCHANGED pc
    /\ UNCHANGED <<srpRequests, srpProcessLog, now, appends, deriveVars, calcVars, authVars>>

\* userRole = await storage.createUserRole({ userId, role: "member" })
UserRole_Create(s) ==
    /\ pc[s] = [op |-> "userRole", step |-> "create"]
    /\ CreateUserRole(s, "userRole", SeatUserId(s), "member")
    /\ pc' = [pc EXCEPT ![s] = NoSession]
    /\ UNCHANGED <<srpRequests, srpProcessLog, now, appends, deriveVars, calcVars, session>>

\* app.post("/api/admin/bootstrap"):
\* const existingRole = await storage.getUserRole(userId)
Bootstrap_GetRole(s) ==
    /\ Idle(s)
    /\ session[s].user # Undefined
    /\ LET existingRole == GetUserRole(userRoles, SeatUserId(s))
       IN  IF existingRole = Some("admin")
           THEN /\ resp' = Resp("bootstrap", SeatUserId(s), "200", "admin")
                /\ UNCHANGED pc
           ELSE /\ pc' = [pc EXCEPT ![s] = [op |-> "bootstrap", step |-> "write",
                                            existingRole |-> existingRole]]
                /\ UNCHANGED resp
    /\ UNCHANGED <<srpRequests, srpProcessLog, now, appends, deriveVars, calcVars, authVars>>

\* if (existingRole) updateUserRole(userId, "admin")
\* else createUserRole({ userId, role: "admin" })
Bootstrap_Write(s) ==
    /\ pc[s].op = "bootstrap"
    /\ pc[s].step = "write"
    /\ IF pc[s].existingRole # Undefined
       THEN UpdateUserRole(s, "bootstrap", SeatUserId(s), "admin")
       ELSE CreateUserRole(s, "bootstrap", SeatUserId(s), "admin")
    /\ pc' = [pc EXCEPT ![s] = NoSession]
    /\ UNCHANGED <<srpRequests, srpProcessLog, now, appends, deriveVars, calcVars, session>>

NextBootstrap ==
    \/ Tick
    \/ \E s \in Sessions : UserRole_GetRole(s)
    \/ \E s \in Sessions : UserRole_Create(s)
    \/ \E s \in Sessions : Bootstrap_GetRole(s)
    \/ \E s \in Sessions : Bootstrap_Write(s)

SpecBootstrap == Init /\ [][NextBootstrap]_vars

----------------------------------------------------------------------------
(* The middleware requireRole (server/middleware/requireRole.ts).          *)

\* A session that has not signed in.
SignedOut ==
    [user |-> Undefined, accessToken |-> Undefined, refreshToken |-> Undefined,
     tokenExpiry |-> Undefined, oauthState |-> Undefined]

\* ROLE_HIERARCHY[role] || 0
ROLE_HIERARCHY_Flat(role) == 1

ROLE_HIERARCHY(role) ==
    CASE role = "member" -> 1
      [] role = "fc" -> 2
      [] role = "admin" -> 3
      [] OTHER -> 0

\* What the middleware does once getUserRole has answered userRole:
\* "403" or the call of next().
RequireRole_Outcome(userRole, minimumRole) ==
    IF userRole = Undefined THEN "403"
    ELSE IF ROLE_HIERARCHY(userRole[1]) < ROLE_HIERARCHY(minimumRole) THEN "403"
    ELSE "next"

\* The synchronous part: const user = req.session.user; if (!user) 401;
\* then the query is sent.
RequireRole_Enter(s, minimumRole) ==
    /\ Idle(s)
    /\ IF session[s].user = Undefined
       THEN /\ resp' = Resp("requireRole", s, "401", minimumRole)
            /\ UNCHANGED pc
       ELSE /\ pc' = [pc EXCEPT ![s] = [op |-> "requireRole", step |-> "getUserRole",
                                        seatUserId |-> session[s].user[1],
                                        minimumRole |-> minimumRole]]
            /\ UNCHANGED resp
    /\ UNCHANGED <<srpRequests, srpProcessLog, now, appends, deriveVars, calcVars, authVars>>

\* const userRole = await storage.getUserRole(user.seatUserId), and the rest.
RequireRole_Check(s) ==
    /\ pc[s].op = "requireRole"
    /\ pc[s].step = "getUserRole"
    /\ resp' = Resp("requireRole", s,
                    RequireRole_Outcome(GetUserRole(userRoles, pc[s].seatUserId),
                                        pc[s].minimumRole),
                    pc[s].minimumRole)
    /\ pc' = [pc EXCEPT ![s] = NoSession]
    /\ UNCHANGED <<srpRequests, srpProcessLog, now, appends, deriveVars, calcVars, authVars>>

\* Any content of user_roles, and sessions signed in or not.
RolesAndSessions ==
    /\ userRoles \in UNION {[D -> userRoleEnum] : D \in SUBSET {SeatUserId(s) : s \in Sessions}}
    /\ session \in [Sessions -> {SignedOut} \cup {SignedIn(s) : s \in Sessions}]
    /\ \A s \in Sessions : session[s] \in {SignedOut, SignedIn(s)}

InitRole ==
    /\ EmptyDb
    /\ dLogs = <<>>
    /\ dStatus = "unset"
    /\ NoCalculation
    /\ RolesAndSessions

NextRole ==
    \/ \E s \in Sessions : UserRole_GetRole(s)
    \/ \E s \in Sessions : UserRole_Create(s)
    \/ \E s \in Sessions, minimumRole \in userRoleEnum : RequireRole_Enter(s, minimumRole)
    \/ \E s \in Sessions : RequireRole_Check(s)

SpecRole == InitRole /\ [][NextRole]_vars

----------------------------------------------------------------------------
(* GET /api/srp-requests/:id (the handler of unnamed/part_008; the one of  *)
(* server/routes.ts differs only in the names of the session and row       *)
(* fields).                                                                *)

RequestIds == 1..(MaxClaims + 1)

\* userRole && ["admin", "fc"].includes(userRole.role)
IsAdmin_AnyRole(userRole) == userRole # Undefined

IsAdmin(userRole) == userRole # Undefined /\ userRole[1] \in {"admin", "fc"}

\* const request = await storage.getSrpRequest(id); if (!request) 404
GetById_GetRequest(s, id) ==
    /\ Idle(s)
    /\ IF session[s].user = Undefined
       THEN /\ resp' = Resp("getById", id, "401", <<>>)
            /\ UNCHANGED pc
       ELSE IF id \notin DOMAIN srpRequests
       THEN /\ resp' = Resp("getById", id, "404", <<>>)
            /\ UNCHANGED pc
       ELSE /\ \E processLogs \in GetSrpProcessLogs(srpProcessLog, id) :
                 pc' = [pc EXCEPT ![s] =
                          [op |-> "getById", step |-> "getUserRole", id |-> id,
                           seatUserId |-> session[s].user[1],
                           request |-> [id |-> id,
                                        seatUserId |-> srpRequests[id].seatUserId,
                                        status |-> DeriveStatusFromLogs(processLogs)]]]
            /\ UNCHANGED resp
    /\ UNCHANGED <<srpRequests, srpProcessLog, now, appends, deriveVars, calcVars, authVars>>

\* const userRole = await storage.getUserRole(user.seatUserId), and the rest.
GetById_Check(s) ==
    /\ pc[s].op = "getById"
    /\ pc[s].step = "getUserRole"
    /\ LET userRole == GetUserRole(userRoles, pc[s].seatUserId)
       IN  IF pc[s].request.seatUserId # pc[s].seatUserId /\ ~IsAdmin(userRole)
           THEN resp' = Resp("getById", pc[s].id, "403", <<>>)
           ELSE resp' = Resp("getById", pc[s].id, "200", <<pc[s].request>>)
    /\ pc' = [pc EXCEPT ![s] = NoSession]
    /\ UNCHANGED <<srpRequests, srpProcessLog, now, appends, deriveVars, calcVars, authVars>>

\* One claim, submitted by user 1, and any roles and sessions.
InitView ==
    /\ srpRequests = (1 :> [seatUserId |-> 1, killmailId |-> 101, payoutAmount |-> Null])
    /\ srpProcessLog = <<[srpRequestId |-> 1, processType |-> "created", occurredAt |-> 1,
                          byMainChar |-> "pilot1", note |-> Null]>>
    /\ now = 1
    /\ appends = 0
    /\ pc = [s \in Sessions |-> NoSession]
    /\ resp = NoResp
    /\ dLogs = <<>>
    /\ dStatus = "unset"
    /\ NoCalculation
    /\ RolesAndSessions

NextView ==
    \/ \E s \in Sessions : UserRole_GetRole(s)
    \/ \E s \in Sessions : UserRole_Create(s)
    \/ \E s \in Sessions, id \in RequestIds : GetById_GetRequest(s, id)
    \/ \E s \in Sessions : GetById_Check(s)

SpecView == InitView /\ [][NextView]_vars

----------------------------------------------------------------------------
(* Sign-in with EVE SSO and the middleware isAuthenticated (server/auth.ts). *)
(* session[s] is the session object of browser s; a request of s works on  *)
(* it directly. Times are in units of the token lifetime step.             *)

\* crypto.randomBytes(16).toString("hex")
OauthStates == {"a", "b"}
\* The state and code parameters of a callback request: any, or none.
StateParams == {Undefined} \cup {Some(x) : x \in OauthStates}
CodeParams == {Undefined, Some("code")}
\* What the SSO token endpoint answers: a new pair of tokens (the n-th), or
\* an access token alone, and a lifetime.
TokenResponses ==
    {[access_token |-> n, refresh_token |-> Some(n), expires_in |-> e] :
        n \in {1, 2}, e \in {1, 2}}
    \cup {[access_token |-> 2, refresh_token |-> Undefined, expires_in |-> 1]}

\* app.get("/api/login")
Login(s, state) ==
    /\ Idle(s)
    /\ session' = [session EXCEPT ![s].oauthState = Some(state)]
    /\ resp' = Resp("login", s, "redirect", "sso")
    /\ UNCHANGED <<srpRequests, srpProcessLog, now, appends, pc, deriveVars, calcVars, userRoles>>

\* state !== req.session.oauthState
StateMismatch(state, oauthState) == state # oauthState

\* app.get("/api/auth/callback"), up to the first await.
Callback_Check(s, code, state) ==
    /\ Idle(s)
    /\ IF code = Undefined
       THEN /\ resp' = Resp("callback", s, "redirect", "no_code")
            /\ UNCHANGED <<pc, session>>
       ELSE IF StateMismatch(state, session[s].oauthState)
       THEN /\ resp' = Resp("callback", s, "redirect", "state_mismatch")
            /\ UNCHANGED <<pc, session>>
       ELSE /\ session' = [session EXCEPT ![s].oauthState = Undefined]
            /\ pc' = [pc EXCEPT ![s] = [op |-> "callback", step |-> "exchange",
                                        state |-> state]]
            /\ UNCHANGED resp
    /\ UNCHANGED <<srpRequests, srpProcessLog, now, appends, deriveVars, calcVars, userRoles>>

\* The exchange, the character and the SeAT user were obtained and allowed:
\* the session is signed in.
Callback_SignIn(s, userData, tokens) ==
    /\ pc[s].op = "callback"
    /\ pc[s].step = "exchange"
    /\ now + tokens.expires_in <= MaxTime + 1
    /\ session' = [session EXCEPT ![s].user = Some(userData),
                                  ![s].accessToken = Some(tokens.access_token),
                                  ![s].refreshToken = tokens.refresh_token,
                                  ![s].tokenExpiry = Some(now + tokens.expires_in)]
    /\ resp' = Resp("callback", s, "redirect", "")
    /\ pc' = [pc EXCEPT ![s] = NoSession]
    /\ UNCHANGED <<srpRequests, srpProcessLog, now, appends, deriveVars, calcVars, userRoles>>

\* A call threw, SeAT knows no such user, or the corporation is not allowed.
Callback_Refused(s, error) ==
    /\ pc[s].op = "callback"
    /\ pc[s].step = "exchange"
    /\ resp' = Resp("callback", s, "redirect", error)
    /\ pc' = [pc EXCEPT ![s] = NoSession]
    /\ UNCHANGED <<srpRequests, srpProcessLog, now, appends, deriveVars, calcVars, authVars>>

\* app.get("/api/logout"): req.session.destroy
Logout(s) ==
    /\ Idle(s)
    /\ session' = [session EXCEPT ![s] = SignedOut]
    /\ resp' = Resp("logout", s, "redirect", "")
    /\ UNCHANGED <<srpRequests, srpProcessLog, now, appends, pc, deriveVars, calcVars, userRoles>>

\* req.session.tokenExpiry || 0
TokenExpiry(sess) == IF sess.tokenExpiry = Undefined THEN 0 ELSE sess.tokenExpiry[1]

\* isAuthenticated, up to the await of refreshAccessToken.
IsAuthenticated_Enter(s) ==
    /\ Idle(s)
    /\ IF session[s].user = Undefined
       THEN resp' = Resp("isAuthenticated", s, "401", "") /\ UNCHANGED pc
       ELSE IF now < TokenExpiry(session[s])
       THEN resp' = Resp("isAuthenticated", s, "next", "") /\ UNCHANGED pc
       ELSE IF session[s].refreshToken = Undefined
       THEN resp' = Resp("isAuthenticated", s, "401", "") /\ UNCHANGED pc
       ELSE /\ pc' = [pc EXCEPT ![s] = [op |-> "isAuthenticated", step |-> "refresh",
                                        refreshToken |-> session[s].refreshToken[1]]]
            /\ UNCHANGED resp
    /\ UNCHANGED <<srpRequests, srpProcessLog, now, appends, deriveVars, calcVars, authVars>>

\* The three assignments after a successful refresh.
StoreTokens_KeepRefreshToken(sess, tokens) ==
    [sess EXCEPT !.accessToken = Some(tokens.access_token),
                 !.tokenExpiry = Some(now + tokens.expires_in)]

StoreTokens(sess, tokens) ==
    [sess EXCEPT !.accessToken = Some(tokens.access_token),
                 !.refreshToken = tokens.refresh_token,
                 !.tokenExpiry = Some(now + tokens.expires_in)]

\* refreshAccessToken answered: the tokens are replaced and next() is called.
IsAuthenticated_Refreshed(s, tokens) ==
    /\ pc[s].op = "isAuthenticated"
    /\ pc[s].step = "refresh"
    /\ now + tokens.expires_in <= MaxTime + 1
    /\ session' = [session EXCEPT ![s] = StoreTokens(session[s], tokens)]
    /\ resp' = Resp("isAuthenticated", s, "next", "")
    /\ pc' = [pc EXCEPT ![s] = NoSession]
    /\ UNCHANGED <<srpRequests, srpProcessLog, now, appends, deriveVars, calcVars, userRoles>>

\* refreshAccessToken threw ("Token refresh failed").
IsAuthenticated_RefreshFails(s) ==
    /\ pc[s].op = "isAuthenticated"
    /\ pc[s].step = "refresh"
    /\ resp' = Resp("isAuthenticated", s, "401", "")
    /\ pc' = [pc EXCEPT ![s] = NoSession]
    /\ UNCHANGED <<srpRequests, srpProcessLog, now, appends, deriveVars, calcVars, authVars>>

\* No browser has signed in yet.
InitAuth ==
    /\ EmptyDb
    /\ dLogs = <<>>
    /\ dStatus = "unset"
    /\ NoCalculation
    /\ userRoles = NoRoles
    /\ session = [s \in Sessions |-> SignedOut]

NextAuth ==
    \/ Tick
    \/ \E s \in Sessions, state \in OauthStates : Login(s, state)
    \/ \E s \in Sessions, code \in CodeParams, state \in StateParams : Callback_Check(s, code, state)
    \/ \E s \in Sessions, tokens \in TokenResponses : Callback_SignIn(s, SeatUserId(s), tokens)
    \/ \E s \in Sessions, error \in {"auth_failed", "seat_user_not_found", "access_denied"} :
          Callback_Refused(s, error)
    \/ \E s \in Sessions : Logout(s)
    \/ \E s \in Sessions : IsAuthenticated_Enter(s)
    \/ \E s \in Sessions, tokens \in TokenResponses : IsAuthenticated_Refreshed(s, tokens)
    \/ \E s \in Sessions : IsAuthenticated_RefreshFails(s)

SpecAuth == InitAuth /\ [][NextAuth]_vars

----------------------------------------------------------------------------
(* DatabaseStorage.getDashboardStats: the personal figures pendingCount    *)
(* and totalPaidOut. Two SELECT statements; the global figures             *)
(* approvedToday and averageProcessingHours are further reads that do not  *)
(* enter these two.                                                        *)

\* .from(srpRequests).where(eq(srpRequests.seatUserId, seatUserId))
UserRequests_All(requests, seatUserId) == DOMAIN requests

UserRequests(requests, seatUserId) ==
    {id \in DOMAIN requests : requests[id].seatUserId = seatUserId}

\* const userRequests = await db.select()...
Stats_SelectRequests(s) ==
    /\ Idle(s)
    /\ pc' = [pc EXCEPT ![s] =
                [op |-> "getDashboardStats", step |-> "selectLogs",
                 seatUserId |-> SeatUserId(s),
                 userRequests |-> [id \in UserRequests(srpRequests, SeatUserId(s)) |->
                                      srpRequests[id]]]]
    /\ UNCHANGED <<srpRequests, srpProcessLog, now, appends, resp, deriveVars, calcVars, authVars>>

\* if (status === "paid" && request.payoutAmount) totalPaidOut += request.payoutAmount
PaidOut(userRequests, statusOf) ==
    TotalPayout(userRequests,
                {id \in DOMAIN userRequests :
                    statusOf[id] = "paid" /\ ~FalsyNumber(userRequests[id].payoutAmount)})

\* const allLogs = await db.select()...orderBy(desc(occurredAt)), and the
\* two loops. Rows of equal occurred_at come in any order.
Stats_SelectLogs(s) ==
    /\ pc[s].op = "getDashboardStats"
    /\ pc[s].step = "selectLogs"
    /\ \E statusOf \in [DOMAIN pc[s].userRequests -> {"pending", "approved", "denied", "paid"}] :
          /\ \A id \in DOMAIN pc[s].userRequests :
                \E logs \in GetSrpProcessLogs(srpProcessLog, id) :
                    statusOf[id] = DeriveStatusFromLogs(logs)
          /\ resp' = Resp("getDashboardStats", pc[s].seatUserId, "ok",
                          [pendingCount |->
                               Cardinality({id \in DOMAIN pc[s].userRequests :
                                               statusOf[id] = "pending"}),
                           totalPaidOut |-> PaidOut(pc[s].userRequests, statusOf)])
    /\ pc' = [pc EXCEPT ![s] = NoSession]
    /\ UNCHANGED <<srpRequests, srpProcessLog, now, appends, deriveVars, calcVars, authVars>>

\* A claim of user 1 was approved for 5 and paid before the model's clock
\* started.
InitStats ==
    /\ srpRequests = (1 :> [seatUserId |-> 1, killmailId |-> 101, payoutAmount |-> Some(5)])
    /\ srpProcessLog =
          <<[srpRequestId |-> 1, processType |-> "created", occurredAt |-> -2,
             byMainChar |-> "pilot1", note |-> Null],
            [srpRequestId |-> 1, processType |-> "approve", occurredAt |-> -1,
             byMainChar |-> "pilot2", note |-> Null],
            [srpRequestId |-> 1, processType |-> "pay", occurredAt |-> 0,
             byMainChar |-> "pilot2", note |-> Null]>>
    /\ now = 1
    /\ appends = 0
    /\ pc = [s \in Sessions |-> NoSession]
    /\ resp = NoResp
    /\ dLogs = <<>>
    /\ dStatus = "unset"
    /\ NoCalculation
    /\ AllSignedIn

NextStats ==
    \/ Tick
    \/ \E s \in Sessions : OneAtATime /\ CreateSrpRequest_Posted(s, 100 + FreshId)
    \/ \E s \in Sessions : CreateSrpRequest_InsertLog(s)
    \/ \E s \in Sessions, id \in PostedIds, t \in {"approve", "deny", "pay"},
          p \in {Undefined, Some(5)} :
             OneAtATime /\ AddProcessLog(s, id, t, Undefined, p)
    \/ \E s \in Sessions : AddProcessLog_InsertLog(s)
    \/ \E s \in Sessions : OneAtATime /\ Stats_SelectRequests(s)
    \/ \E s \in Sessions : Stats_SelectLogs(s)

SpecStats == InitStats /\ [][NextStats]_vars

----------------------------------------------------------------------------
(* What the claims speak of. *)

\* The statuses a read of the claim can derive now: one per order in which
\* the database may return the claim's entries.
DerivedStatuses(log, id) ==
    {DeriveStatusFromLogs(f) : f \in GetSrpProcessLogs(log, id)}

\* The kinds of a claim's entries in the order they were appended.
KindsOf(log, id) ==
    LET mine == LogsOf(log, id) IN [i \in 1..Len(mine) |-> mine[i].processType]

\* This step appends one entry of a kind in K to the log of claim id.
Appends(id, K) ==
    LET before == LogsOf(srpProcessLog, id)
        after == LogsOf(srpProcessLog', id)
    IN  /\ Len(after) = Len(before) + 1
        /\ after[Len(after)].processType \in K

\* createSrpRequest has finished on claim id: the row is there and the
\* claim's log starts with its created entry.
Settled(id) ==
    /\ id \in DOMAIN srpRequests
    /\ \A s \in Sessions :
          ~(pc[s].op \in {"createSrpRequest", "postSrpRequest"}
            /\ pc[s].step = "insertLog" /\ pc[s].id = id)
    /\ LogsOf(srpProcessLog, id) # <<>>
    /\ LogsOf(srpProcessLog, id)[1].processType = "created"

\* No two entries of the claim carry the same timestamp.
TieFree(log, id) ==
    LET mine == LogsOf(log, id)
    IN  \A i, j \in 1..Len(mine) : i # j => mine[i].occurredAt # mine[j].occurredAt

NumOfKinds(log, id, K) ==
    Cardinality({i \in 1..Len(log) :
                    log[i].srpRequestId = id /\ log[i].processType \in K})

----------------------------------------------------------------------------
\* C1: deriveStatusFromLogs returns the status mapped from the first entry
\* whose kind is created/approve/deny/pay (created->pending,
\* approve->approved, deny->denied, pay->paid), and pending when the list is
\* empty or holds no such entry.
FirstStatusIndex(logs) ==
    LET hits == {i \in 1..Len(logs) :
                    logs[i].processType \in {"created", "approve", "deny", "pay"}}
    IN  IF hits = {} THEN 0
        ELSE CHOOSE i \in hits : \A j \in hits : i <= j

ExpectedStatus(logs) ==
    LET i == FirstStatusIndex(logs)
    IN  IF i = 0 THEN "pending"
        ELSE CASE logs[i].processType = "created" -> "pending"
               [] logs[i].processType = "approve" -> "approved"
               [] logs[i].processType = "deny"    -> "denied"
               [] logs[i].processType = "pay"     -> "paid"

C1_DeriveFirstStatusEntry ==
    dStatus # "unset" => dStatus = ExpectedStatus(dLogs)

\* An audit entry precedes the deciding entry and the function has answered.
C1_Witness ==
    /\ dStatus = "paid"
    /\ Len(dLogs) = 3
    /\ dLogs[1].processType = "updated"
    /\ dLogs[2].processType = "pay"
    /\ dLogs[3].processType = "approve"

----------------------------------------------------------------------------
\* C2: an approve or deny entry is appended to a (created) claim's log only
\* when the claim's derived status just before the append is pending. (Stated
\* for appends that leave the log free of equal timestamps, where the derived
\* status is unambiguous.)
C2_ReviewOnlyWhenPending ==
    [][\A id \in ClaimIds :
          (Settled(id) /\ TieFree(srpProcessLog', id) /\ Appends(id, {"approve", "deny"}))
              => DerivedStatuses(srpProcessLog, id) = {"pending"}]_vars

\* C3: a pay entry is appended to a (created) claim's log only when the
\* claim's derived status just before the append is approved. (Stated for
\* appends that leave the log free of equal timestamps.)
C3_PayOnlyWhenApproved ==
    [][\A id \in ClaimIds :
          (Settled(id) /\ TieFree(srpProcessLog', id) /\ Appends(id, {"pay"}))
              => DerivedStatuses(srpProcessLog, id) = {"approved"}]_vars

\* C5: addProcessLog is all-or-nothing: a call on a (created) claim that ends
\* without inserting its entry leaves the claim's payoutAmount as it was
\* before the call.
C5_AddProcessLogAllOrNothing ==
    [][\A s \in Sessions :
          (/\ pc[s].op = "addProcessLog"
           /\ Settled(pc[s].id)
           /\ pc'[s] = NoSession
           /\ srpProcessLog' = srpProcessLog)
              => PayoutOf(srpRequests', pc[s].id) = pc[s].payoutBefore]_vars

\* C6: every claim row, once no createSrpRequest call is still at work on it,
\* has exactly one created entry, and that entry is the first of its log.
C6_ExactlyOneCreatedFirst ==
    \A id \in DOMAIN srpRequests :
        (\A s \in Sessions :
            ~(pc[s].op \in {"createSrpRequest", "postSrpRequest"}
              /\ pc[s].step = "insertLog" /\ pc[s].id = id))
        => /\ NumOfKinds(srpProcessLog, id, {"created"}) = 1
           /\ LogsOf(srpProcessLog, id)[1].processType = "created"

\* C8: process-log entries are append-only: every step keeps every existing
\* row of srp_process_log, with its claim, kind, timestamp, actor and note.
C8_LogAppendOnly ==
    [][/\ Len(srpProcessLog') >= Len(srpProcessLog)
       /\ \A i \in 1..Len(srpProcessLog) : srpProcessLog'[i] = srpProcessLog[i]]_vars

\* A claim's log holds its created entry and two appended ones, with a note.
C8_Witness ==
    /\ Len(srpProcessLog) = 3
    /\ srpProcessLog[1].processType = "created"
    /\ srpProcessLog[2].note = Some("n")
    /\ srpProcessLog[3].byMainChar # srpProcessLog[2].byMainChar

\* C9: a read of a claim whose entries were appended as created, approve, pay
\* derives paid; created, deny derives denied; created alone derives pending;
\* created, approve, deny derives denied. (The clock never runs backwards, so
\* the timestamps are non-decreasing in the order of appending.)
C9_SequencesDerive ==
    (resp.op = "getSrpRequest" /\ resp.code = "ok") =>
        LET kinds == KindsOf(srpProcessLog, resp.id)
        IN  /\ kinds = <<"created", "approve", "pay">> => resp.body = "paid"
            /\ kinds = <<"created", "deny">> => resp.body = "denied"
            /\ kinds = <<"created">> => resp.body = "pending"
            /\ kinds = <<"created", "approve", "deny">> => resp.body = "denied"

\* C10: the derived status only moves pending -> approved -> paid or
\* pending -> denied: denied and paid stay, approved changes only to paid.
\* (Stated for created claims and logs free of equal timestamps.)
C10_StatusMonotone ==
    [][\A id \in DOMAIN srpRequests :
          LET before == DerivedStatuses(srpProcessLog, id)
              after == DerivedStatuses(srpProcessLog', id)
          IN  (Settled(id) /\ TieFree(srpProcessLog', id)) =>
              /\ before = {"denied"} => after = {"denied"}
              /\ before = {"paid"} => after = {"paid"}
              /\ before = {"approved"} => after \subseteq {"approved", "paid"}]_vars

----------------------------------------------------------------------------
\* C4: when two reviewers submit a decision for the same pending claim at
\* once, one decision is applied and the other writer fails: the claim's log
\* never holds two review-decision entries.
C4_OneDecisionWins ==
    NumOfKinds(srpProcessLog, 1, {"approve", "deny"}) <= 1

\* C7: a creation request whose killmailId already belongs to a claim when
\* the request ends is answered with a client error (400 or 409) and inserts
\* no row and no entry; and no two claims share a killmailId.
C7_DuplicateKillmailIsConflict ==
    [][\A s \in Sessions :
          (/\ pc[s].op = "postSrpRequest"
           /\ pc[s].step \in {"getFleet", "insertRequest"}
           /\ KillmailTaken(pc[s].killmailId)
           /\ pc'[s] = NoSession)
              => /\ resp'.code \in {"400", "409"}
                 /\ srpRequests' = srpRequests
                 /\ srpProcessLog' = srpProcessLog]_vars

----------------------------------------------------------------------------
(* The payout calculation. *)

Answered(s) == calcRes[s].code = "200"

\* The uncapped amount, read from a response's breakdown.
CalculatedAmount(res) ==
    (res.breakdown.baseValue * res.breakdown.operationMultiplier[1])
        \div res.breakdown.operationMultiplier[2]

\* The group named in a body is a special-class group.
NamesSpecialClass(body) ==
    body.groupName # Undefined /\ body.groupName[1] \in specialClasses

\* The group named in a body has a tier ceiling.
NamesTier(body) ==
    body.groupName # Undefined /\ body.groupName[1] \in DOMAIN classToMaxPayout

\* C11: the multiplier is 1 for a fleet loss with the special-role flag, else
\* 1/2 for a fleet loss, else 1 for a special-class ship group, else 1/4; an
\* absent or unknown group is not special-class; the breakdown reports the
\* special role as (fleet and flag).
C11_OperationMultiplier ==
    \A s \in Sessions :
        Answered(s) =>
            LET body == calcReq[s]
                fleet == body.operationType = "fleet"
                flag == body.isSpecialRole = Some(TRUE)
                expected == IF fleet /\ flag THEN <<1, 1>>
                            ELSE IF fleet THEN <<1, 2>>
                            ELSE IF NamesSpecialClass(body) THEN <<1, 1>>
                            ELSE <<1, 4>>
            IN  /\ calcRes[s].breakdown.operationMultiplier = expected
                /\ calcRes[s].breakdown.isSpecialRole = (fleet /\ flag)
                /\ calcRes[s].breakdown.isSpecialShipClass = NamesSpecialClass(body)

\* 1B ISK, fleet, no special role, no group: multiplier 1/2, payout 500M ISK.
C11_Witness ==
    /\ calcReq[1].iskValue = Some(80)
    /\ calcReq[1].operationType = "fleet"
    /\ calcReq[1].isSpecialRole = Some(FALSE)
    /\ calcReq[1].groupName = Undefined
    /\ Answered(1)
    /\ calcRes[1].breakdown.operationMultiplier = <<1, 2>>
    /\ calcRes[1].estimatedPayout = 40

\* C12: maxPayout is the group's tier ceiling exactly when the operation is
\* solo and the named group has one, else the default 5B ISK; the estimate is
\* the final amount, the smaller of base times multiplier and maxPayout, and
\* so never exceeds maxPayout.
C12_MaxPayout ==
    \A s \in Sessions :
        Answered(s) =>
            LET body == calcReq[s]
                res == calcRes[s]
                tiered == body.operationType = "solo" /\ NamesTier(body)
                calculated == CalculatedAmount(res)
            IN  /\ res.breakdown.maxPayout =
                       IF tiered THEN classToMaxPayout[body.groupName[1]] ELSE 400
                /\ res.estimatedPayout = res.breakdown.finalAmount
                /\ res.estimatedPayout =
                       IF calculated <= res.breakdown.maxPayout
                       THEN calculated ELSE res.breakdown.maxPayout
                /\ res.estimatedPayout <= res.breakdown.maxPayout

\* Solo, ceiling 300M ISK: 2B gives 300M, 1B gives 250M.
C12_Witness ==
    /\ calcReq[1].iskValue = Some(160)
    /\ calcReq[2].iskValue = Some(80)
    /\ \A s \in Sessions :
          /\ calcReq[s].operationType = "solo"
          /\ calcReq[s].groupName = Some("Frigate")
          /\ Answered(s)
          /\ calcRes[s].breakdown.maxPayout = 24
    /\ calcRes[1].estimatedPayout = 24
    /\ calcRes[2].estimatedPayout = 20

\* C13: two solo calculations of the same base value and group give the same
\* estimate and breakdown whatever their special-role flags.
C13_FlagIgnoredSolo ==
    (/\ Answered(1) /\ Answered(2)
     /\ calcReq[1].operationType = "solo"
     /\ calcReq[2].operationType = "solo"
     /\ calcReq[1].iskValue = calcReq[2].iskValue
     /\ calcReq[1].groupName = calcReq[2].groupName)
        => /\ calcRes[1].estimatedPayout = calcRes[2].estimatedPayout
           /\ calcRes[1].breakdown = calcRes[2].breakdown

C13_Witness ==
    /\ Answered(1) /\ Answered(2)
    /\ calcReq[1].operationType = "solo"
    /\ calcReq[2].operationType = "solo"
    /\ calcReq[1].isSpecialRole = Some(TRUE)
    /\ calcReq[2].isSpecialRole = Some(FALSE)
    /\ calcReq[1].iskValue = Some(80)
    /\ calcReq[2].iskValue = Some(80)
    /\ calcReq[1].groupName = Some("Logistics")
    /\ calcReq[2].groupName = Some("Logistics")
    /\ specialClasses # {}

\* No limit binds in a response: the final amount is the uncapped amount.
Unbound(res) == CalculatedAmount(res) <= res.breakdown.maxPayout

\* C14: for a positive base value and a group that is not special-class, with
\* no special role and no limit binding in either calculation, the fleet
\* estimate is twice the solo estimate.
C14_FleetTwiceSolo ==
    (/\ Answered(1) /\ Answered(2)
     /\ calcReq[1].operationType = "fleet"
     /\ calcReq[2].operationType = "solo"
     /\ calcReq[1].isSpecialRole # Some(TRUE)
     /\ calcReq[2].isSpecialRole # Some(TRUE)
     /\ calcReq[1].iskValue = calcReq[2].iskValue
     /\ calcReq[1].iskValue[1] > 0
     /\ calcReq[1].groupName = calcReq[2].groupName
     /\ ~NamesSpecialClass(calcReq[1])
     /\ Unbound(calcRes[1]) /\ Unbound(calcRes[2]))
        => calcRes[1].estimatedPayout = 2 * calcRes[2].estimatedPayout

C14_Witness ==
    /\ Answered(1) /\ Answered(2)
    /\ calcReq[1].operationType = "fleet"
    /\ calcReq[2].operationType = "solo"
    /\ calcReq[1].isSpecialRole = Some(FALSE)
    /\ calcReq[2].isSpecialRole = Some(FALSE)
    /\ calcReq[1].iskValue = Some(80)
    /\ calcReq[2].iskValue = Some(80)
    /\ calcReq[1].groupName = Some("Frigate")
    /\ calcReq[2].groupName = Some("Frigate")
    /\ classToMaxPayout # [g \in {} |-> 0]
    /\ calcRes[1].estimatedPayout = 40
    /\ calcRes[2].estimatedPayout = 20

\* C15: a solo calculation for a special-class group and a fleet calculation
\* with the special-role flag (any group), of the same base value, give the
\* same estimate whenever no limit binds in either.
C15_SpecialClassSoloAsSpecialRoleFleet ==
    (/\ Answered(1) /\ Answered(2)
     /\ calcReq[1].operationType = "solo"
     /\ calcReq[1].isSpecialRole # Some(TRUE)
     /\ NamesSpecialClass(calcReq[1])
     /\ calcReq[2].operationType = "fleet"
     /\ calcReq[2].isSpecialRole = Some(TRUE)
     /\ calcReq[1].iskValue = calcReq[2].iskValue
     /\ Unbound(calcRes[1]) /\ Unbound(calcRes[2]))
        => calcRes[1].estimatedPayout = calcRes[2].estimatedPayout

C15_Witness ==
    /\ Answered(1) /\ Answered(2)
    /\ calcReq[1].operationType = "solo"
    /\ calcReq[1].isSpecialRole = Some(FALSE)
    /\ calcReq[1].groupName = Some("Logistics")
    /\ specialClasses = {"Logistics"}
    /\ calcReq[2].operationType = "fleet"
    /\ calcReq[2].isSpecialRole = Some(TRUE)
    /\ calcReq[2].groupName = Some("Frigate")
    /\ calcReq[1].iskValue = Some(80)
    /\ calcReq[2].iskValue = Some(80)
    /\ calcRes[1].estimatedPayout = 80
    /\ calcRes[2].estimatedPayout = 80

\* C16, as the program has it: for a solo calculation whose group has a tier
\* ceiling below base times multiplier, the estimate is that ceiling exactly
\* and the breakdown's final amount is below the uncapped amount.
C16_CeilingEnforcedSolo ==
    \A s \in Sessions :
        (/\ Answered(s)
         /\ calcReq[s].operationType = "solo"
         /\ NamesTier(calcReq[s])
         /\ classToMaxPayout[calcReq[s].groupName[1]] < CalculatedAmount(calcRes[s]))
            => /\ calcRes[s].estimatedPayout = classToMaxPayout[calcReq[s].groupName[1]]
               /\ calcRes[s].breakdown.finalAmount < CalculatedAmount(calcRes[s])

C16_Witness ==
    /\ Answered(1)
    /\ calcReq[1].operationType = "solo"
    /\ calcReq[1].groupName = Some("Frigate")
    /\ calcReq[1].iskValue = Some(160)
    /\ calcRes[1].breakdown.operationMultiplier = <<1, 4>>
    /\ calcRes[1].estimatedPayout = 24
    /\ calcRes[1].breakdown.finalAmount = 24

\* C16 as stated, for every calculation input: whenever the group's tier
\* ceiling is below base times multiplier, the estimate is that ceiling.
C16_CeilingEnforcedEveryInput ==
    \A s \in Sessions :
        (/\ Answered(s)
         /\ NamesTier(calcReq[s])
         /\ classToMaxPayout[calcReq[s].groupName[1]] < CalculatedAmount(calcRes[s]))
            => /\ calcRes[s].estimatedPayout = classToMaxPayout[calcReq[s].groupName[1]]
               /\ calcRes[s].breakdown.finalAmount < CalculatedAmount(calcRes[s])

\* C17: a body whose operation context is not solo or fleet, or whose base
\* value is negative, is answered with an error and no estimate.
C17_InvalidInputRejected ==
    \A s \in Sessions :
        (/\ calcRes[s] # NoRes
         /\ \/ calcReq[s].operationType \notin {"solo", "fleet"}
            \/ (calcReq[s].iskValue # Undefined /\ calcReq[s].iskValue[1] < 0))
            => calcRes[s] = [code |-> "400"]

----------------------------------------------------------------------------
(* The payment view. *)

\* The claims of a claimant whose derived status is approved.
ApprovedClaimsOf(u) ==
    {id \in DOMAIN srpRequests :
        /\ srpRequests[id].seatUserId = u
        /\ DerivedStatuses(srpProcessLog, id) = {"approved"}}

RECURSIVE SumOfPayouts(_)
\* The sum of the payoutAmount of some claims, none counting as nothing.
SumOfPayouts(ids) ==
    IF ids = {} THEN 0
    ELSE LET id == CHOOSE x \in ids : TRUE
             amount == IF srpRequests[id].payoutAmount = Null
                       THEN 0 ELSE srpRequests[id].payoutAmount[1]
         IN  amount + SumOfPayouts(ids \ {id})

ExpectedGrouped ==
    {[seatUserId |-> u,
      totalPayout |-> SumOfPayouts(ApprovedClaimsOf(u)),
      requestCount |-> Cardinality(ApprovedClaimsOf(u)),
      requestIds |-> ApprovedClaimsOf(u)] :
        u \in {x \in {SeatUserId(s) : s \in Sessions} : ApprovedClaimsOf(x) # {}}}

\* C19: getApprovedRequestsGroupedBySeatUserId returns, per claimant, exactly
\* the claims whose derived status is approved, with the sum of their
\* payoutAmount, their ids and their number. (Stated for logs free of equal
\* timestamps and a claims table unchanged during the call.)
C19_GroupedIsExactlyApproved ==
    [][\A s \in Sessions :
          (/\ pc[s].op = "getApprovedRequestsGroupedBySeatUserId"
           /\ pc'[s] = NoSession
           /\ pc[s].allRequests = srpRequests
           /\ \A id \in DOMAIN srpRequests : TieFree(srpProcessLog, id))
              => resp'.body = ExpectedGrouped]_vars

----------------------------------------------------------------------------
\* A list without its i-th entry.
Without(logs, i) == SubSeq(logs, 1, i - 1) \o SubSeq(logs, i + 1, Len(logs))

\* C20: an entry of a kind outside created/approve/deny/pay, at any position
\* of a claim's log, does not change the derived status: the list with the
\* entry derives what the list without it derives.
C20_NonStatusEntryChangesNothing ==
    dStatus # "unset" =>
        \A i \in 1..Len(dLogs) :
            dLogs[i].processType \notin {"created", "approve", "deny", "pay"}
                => DeriveStatusFromLogs(Without(dLogs, i)) = dStatus

C20_Witness ==
    /\ dStatus = "approved"
    /\ Len(dLogs) = 3
    /\ dLogs[1].processType = "updated"
    /\ dLogs[2].processType = "approve"
    /\ dLogs[3].processType = "created"

----------------------------------------------------------------------------
\* A list read backwards.
Reverse(logs) == [i \in 1..Len(logs) |-> logs[Len(logs) + 1 - i]]

\* C21: whatever order the fetch gives to entries of equal timestamp, the
\* status derived for a claim is the same, namely the one derived with ties
\* broken by insertion order (the entry inserted last first).
C21_TieOrderIrrelevant ==
    \A id \in DOMAIN srpRequests :
        DerivedStatuses(srpProcessLog, id) =
            {DeriveStatusFromLogs(Reverse(LogsOf(srpProcessLog, id)))}

----------------------------------------------------------------------------
\* No addProcessLog call on the claim is between its two statements.
NoAppendInFlight(id) ==
    \A s \in Sessions : ~(pc[s].op = "addProcessLog" /\ pc[s].id = id)

\* C22: a (created) claim's payoutAmount is set if and only if its log holds
\* an approve entry. (Stated outside the two statements of an append.)
C22_PayoutIffApprove ==
    \A id \in DOMAIN srpRequests :
        (Settled(id) /\ NoAppendInFlight(id)) =>
            (srpRequests[id].payoutAmount # Null
                <=> NumOfKinds(srpProcessLog, id, {"approve"}) >= 1)

\* C23: a call that appends a deny, pay or created entry leaves the claim's
\* payoutAmount as it was, whatever its arguments.
C23_OnlyApproveChangesPayout ==
    [][\A s \in Sessions :
          (/\ Idle(s)
           /\ pc'[s].op = "addProcessLog"
           /\ pc'[s].processType \in {"deny", "pay", "created"})
              => PayoutOf(srpRequests', pc'[s].id) = PayoutOf(srpRequests, pc'[s].id)]_vars

----------------------------------------------------------------------------
\* The characters of a session's user.
CharactersOf(s) == AssociatedCharacterIds(s) \cup {MainCharacterId(s)}

\* C24: POST /api/srp-requests inserts a claim only when the kill record's
\* victim is one of the submitting user's characters, whatever the session
\* holds (an empty list of associated characters included).
C24_ClaimOnlyForOwnCharacter ==
    [][\A s \in Sessions :
          (/\ pc[s].op = "postSrpRequest"
           /\ pc[s].step = "insertRequest"
           /\ srpRequests' # srpRequests)
              => pc[s].victimCharacterId \in CharactersOf(s)]_vars

----------------------------------------------------------------------------
Admins == {u \in DOMAIN userRoles : userRoles[u] = "admin"}

\* C25: POST /api/admin/bootstrap makes only the first user an admin: after
\* any sequence of bootstrap calls by different users at most one user holds
\* the admin role.
C25_AtMostOneBootstrapAdmin == Cardinality(Admins) <= 1

----------------------------------------------------------------------------
\* The levels the specification gives the roles.
LevelOf(role) == IF role = "member" THEN 1 ELSE IF role = "fc" THEN 2 ELSE 3

\* Session s receives the answer of requireRole in this step.
RequireRoleAnswers(s) ==
    \/ pc[s].op = "requireRole" /\ pc'[s] = NoSession
    \/ /\ Idle(s) /\ session[s].user = Undefined
       /\ resp' # resp /\ resp'.op = "requireRole" /\ resp'.id = s

----------------------------------------------------------------------------
----------------------------------------------------------------------------
Expired(sess) == sess.tokenExpiry = Undefined \/ now >= sess.tokenExpiry[1]

\* C28: isAuthenticated lets a request proceed exactly when the session has
\* a user and the token is not expired or the refresh with the stored refresh
\* token succeeds; a successful refresh replaces accessToken, refreshToken
\* and tokenExpiry; without a refresh token, or when the refresh fails, the
\* answer is 401 and the session is left as it was.
C28_IsAuthenticatedDecides ==
    [][\A s \in Sessions :
          /\ (Idle(s) /\ resp' # resp /\ resp'.op = "isAuthenticated" /\ resp'.id = s) =>
                /\ session' = session
                /\ resp'.code = IF session[s].user # Undefined /\ ~Expired(session[s])
                                THEN "next" ELSE "401"
                /\ resp'.code = "401" =>
                      (session[s].user = Undefined \/ session[s].refreshToken = Undefined)
          /\ (Idle(s) /\ pc'[s].op = "isAuthenticated") =>
                /\ session[s].user # Undefined
                /\ Expired(session[s])
                /\ session[s].refreshToken = Some(pc'[s].refreshToken)
                /\ session' = session
          /\ (pc[s].op = "isAuthenticated" /\ pc'[s] = NoSession) =>
                \/ /\ resp'.code = "next"
                   /\ \E tokens \in TokenResponses :
                         session' = [session EXCEPT ![s] =
                            [user |-> session[s].user,
                             accessToken |-> Some(tokens.access_token),
                             refreshToken |-> tokens.refresh_token,
                             tokenExpiry |-> Some(now + tokens.expires_in),
                             oauthState |-> session[s].oauthState]]
                \/ /\ resp'.code = "401"
                   /\ session' = session]_vars

\* A signed-in session with a refresh token was answered 401: its refresh failed.
C28_Witness ==
    /\ resp.op = "isAuthenticated"
    /\ resp.code = "401"
    /\ session[resp.id].user # Undefined
    /\ session[resp.id].refreshToken # Undefined
    /\ Expired(session[resp.id])

\* C29: the callback signs a session in only if the request's state equals
\* an oauthState that /api/login stored in that session; a callback in a
\* session without a stored state never signs in. (A request without a state
\* parameter equals no stored value.)
C29_SignInNeedsStoredState ==
    [][\A s \in Sessions :
          (pc[s].op = "callback" /\ pc'[s] = NoSession /\ resp'.body = "")
              => pc[s].state # Undefined]_vars

----------------------------------------------------------------------------
\* The claims of u whose derived status is st.
ClaimsInStatus(u, st) ==
    {id \in DOMAIN srpRequests :
        /\ srpRequests[id].seatUserId = u
        /\ DerivedStatuses(srpProcessLog, id) = {st}}

====
